---------------------------- MODULE Spec2Model ----------------------------
(***************************************************************************)
(* Model of the geocoding cache of ReverseGeoTagger (src/cache.py), of the  *)
(* settings dialog operations that act on it (src/dialogs.py) and of the   *)
(* worker run that uses it (src/worker.py).                                *)
(*                                                                         *)
(* Conventions                                                             *)
(*  - A Python float is a record [neg, mag]: the sign bit and the          *)
(*    magnitude in units of 10^-8 degrees.  -0.0 and 0.0 are different     *)
(*    floats that compare equal, exactly as in Python.                     *)
(*  - The text of a float (what the f-string in _generate_cache_key        *)
(*    produces) is the pair <<sign text, magnitude>>; md5 is modelled as   *)
(*    collision free, so a key is the text that is hashed.                 *)
(*  - Time is counted in whole days; timedelta(days=n) is n.               *)
(*  - A timestamp string is a record [kind, t]: kind "iso" (what           *)
(*    isoformat() writes), "bad" (a non-empty text fromisoformat rejects)  *)
(*    or "missing" (no 'timestamp' field, or an empty one).                *)
(***************************************************************************)
EXTENDS Integers, FiniteSets, Sequences, TLC

VARIABLES
    cache_data,          \* GeocodingCache.cache_data: key -> entry
    disk,                \* the cache file: [ok, data]; ok = FALSE is a missing,
                         \* truncated or otherwise unparsable file
    precision,           \* GeocodingCache.precision
    cache_max_age_days,  \* GeocodingCache.cache_max_age_days
    now,                 \* datetime.now(), in days
    nSets,               \* number of direct set calls so far (bounds the
                         \* model)
    last,                \* the operation that ran last, its arguments and result
    directory,           \* the image files below the chosen directory, in
                         \* the order os.walk yields them
    skip_existing,       \* GeocodingWorker.skip_existing
    should_stop,         \* GeocodingWorker.should_stop
    stats,               \* GeocodingWorker.stats
    pc,                  \* where the run is: "none" (no worker), "start",
                         \* "boundary" (the head of the for loop), the step of
                         \* process_image that comes next, "summary", "done"
    image_files,         \* run(): the list find_image_files returned
    idx,                 \* run(): the number of files begun (i + 1)
    meta,                \* file -> the city/state/country tags it holds
    gps_data,            \* process_image: gps_data
    location,            \* process_image: location
    events,              \* the signals emitted so far, in order
    calls,               \* the steps and external calls made so far, in order
    dumping,             \* save_cache called by the worker: the mapping
                         \* json.dump was handed, while pc = "flush_close"
    cache_key,           \* set called by the worker: its local cache_key
    window               \* the main window: its start and stop buttons
                         \* (enabled or not) and whether self.worker is set

\* the variables of the cache
cvars == <<cache_data, disk, precision, cache_max_age_days, now, nSets, last>>

\* the variables of the worker run
wvars == <<directory, skip_existing, should_stop, stats, pc, image_files, idx,
           meta, gps_data, location, events, calls, dumping, cache_key,
           window>>

vars == <<cvars, wvars>>

---------------------------------------------------------------------------
(* Bounds of the model *)

\* the clock runs up to day MaxNow
MaxNow == 2

\* at most MaxSets calls of set in a behaviour
MaxSets == 1

---------------------------------------------------------------------------
(* Values *)

None == "None"

\* location records (opaque dictionaries of strings)
Records == {"r1", "r2"}

\* the record offered to set; the entries found at startup hold the other
\* one, so that an overwrite shows
NewRecords == {"r1"}

\* cache.py:15-21, the keys of PRECISION_LEVELS
PRECISION_LEVELS == {3, 4, 5, 6, 7}

\* values offered to set_precision: the coarsest level, the default level and
\* the first value above the levels
PrecisionInputs == {3, 5, 8}

\* values offered to set_max_age_days (days)
MaxAgeInputs == {0, 1, 2}

\* max-age values the stored settings hold at startup (the dialog's spin box
\* only writes values from 1 up)
InitMaxAges == {1, 2}

\* precisions the stored settings hold at startup
InitPrecisions == {3, 5}

\* thresholds offered to clear_old_entries as an explicit argument (the
\* call without an argument uses the active max-age, 1 or 2)
Thresholds == {0}

Float(neg, mag) == [neg |-> neg, mag |-> mag]

\* coordinates offered to get and set, in units of 10^-8 degrees:
\*   (-0.0002, 2.00004)  (0.0002, 2.00004)  (0.0, 2.0)
\* All three round to latitude zero and longitude 2.0 at precision 3 (the
\* first to -0.0) and to three different pairs at precision 5; the last is
\* its own rounding at every precision.
CoordA == <<Float(TRUE, 20000), Float(FALSE, 200004000)>>
CoordB == <<Float(FALSE, 20000), Float(FALSE, 200004000)>>
CoordC == <<Float(FALSE, 0), Float(FALSE, 200000000)>>
CoordInputs == {CoordA, CoordB, CoordC}

\* coordinates offered to a direct call of set: the two that differ in the
\* sign only (the third is looked up, and the file found at startup holds an
\* entry for it)
SetInputs == {CoordA, CoordB}

\* Python's == on floats: the sign of zero is ignored
FloatEq(a, b) == a.mag = b.mag /\ (a.mag = 0 \/ a.neg = b.neg)

RECURSIVE Pow10(_)
Pow10(n) == IF n <= 0 THEN 1 ELSE 10 * Pow10(n - 1)

\* round(x, p): to the nearest multiple of 10^-p, an exact tie to the even
\* one; the sign bit is kept, so a small negative number rounds to -0.0
Round(x, p) ==
    LET unit == Pow10(8 - p)
        q == x.mag \div unit
        r == x.mag % unit
        up == \/ 2 * r > unit
              \/ 2 * r = unit /\ q % 2 = 1
    IN  Float(x.neg, (IF up THEN q + 1 ELSE q) * unit)

\* f"{x}": the text of a float carries its sign, also for zero
FloatStr(x) == <<IF x.neg THEN "-" ELSE "", x.mag>>

\* GeocodingCache._generate_cache_key under precision p
KeyAt(lat, lon, p) == <<FloatStr(Round(lat, p)), FloatStr(Round(lon, p))>>

\* GeocodingCache._generate_cache_key
GenerateCacheKey(lat, lon) == KeyAt(lat, lon, precision)

\* datetime.isoformat and datetime.fromisoformat
IsoFormat(t) == [kind |-> "iso", t |-> t]
Parses(ts) == ts.kind = "iso"
FromIsoFormat(ts) == ts.t

MissingTs == [kind |-> "missing", t |-> 0]
BadTs == [kind |-> "bad", t |-> 0]

Entry(ts, lat, lon, p, rec) ==
    [timestamp |-> ts, coordinates |-> <<lat, lon>>, precision |-> p,
     location_data |-> rec]

EmptyStore == << >>

\* the mapping m with key k bound to e (a dict assignment)
Put(m, k, e) == [x \in DOMAIN m \cup {k} |-> IF x = k THEN e ELSE m[x]]

\* the mapping m without the keys in ks (del in a loop)
Without(m, ks) == [x \in DOMAIN m \ ks |-> m[x]]

---------------------------------------------------------------------------
(* The cache file found at startup *)

\* entries a cache file may hold when the program starts: one written by an
\* earlier run on day 0, one whose timestamp does not parse, one without a
\* timestamp
OldEntry(c, p, ts, rec) ==
    <<KeyAt(c[1], c[2], p), Entry(ts, Round(c[1], p), Round(c[2], p), p, rec)>>

OldEntries ==
    { OldEntry(CoordB, 5, IsoFormat(0), "r2"),
      OldEntry(CoordC, 5, BadTs, "r2"),
      OldEntry(CoordA, 5, MissingTs, "r2") }

StoreOf(pairs) ==
    [k \in {pr[1] : pr \in pairs} |-> (CHOOSE pr \in pairs : pr[1] = k)[2]]

\* the files the program may find: none or an unparsable one, or a JSON
\* object holding the old entries
InitDisks ==
    { [ok |-> FALSE, data |-> EmptyStore],
      [ok |-> TRUE, data |-> StoreOf(OldEntries)] }

\* GeocodingCache.load_cache: a missing or corrupt file leaves the cache empty
LoadCache(d) == IF d.ok THEN d.data ELSE EmptyStore

---------------------------------------------------------------------------
(* Pure parts of the operations *)

\* get with the age test turned around (age < max-age counts as expired)
GetByKeyFlipped(k) ==
    IF k \notin DOMAIN cache_data THEN None
    ELSE LET ts == cache_data[k].timestamp
         IN  IF ts.kind = "missing" THEN None
             ELSE IF ~Parses(ts) THEN None
             ELSE IF now - FromIsoFormat(ts) < cache_max_age_days THEN None
             ELSE cache_data[k].location_data

\* GeocodingCache.get after the key is derived
GetByKey(k) ==
    IF k \notin DOMAIN cache_data THEN None
    ELSE LET ts == cache_data[k].timestamp
         IN  IF ts.kind = "missing" THEN None
             ELSE IF ~Parses(ts) THEN None
             ELSE IF now - FromIsoFormat(ts) > cache_max_age_days THEN None
             ELSE cache_data[k].location_data

\* GeocodingCache.get
GetValue(lat, lon) == GetByKey(GenerateCacheKey(lat, lon))

\* the entry set writes
NewEntry(lat, lon, rec) ==
    Entry(IsoFormat(now), Round(lat, precision), Round(lon, precision),
          precision, rec)

\* save_cache without its try/except: a failed flush raises
SaveCacheUncaught(m, outcome) ==
    [disk |-> CASE outcome = "ok" -> [ok |-> TRUE, data |-> m]
                [] outcome = "open_failed" -> disk
                [] OTHER -> [ok |-> FALSE, data |-> EmptyStore],
     raised |-> outcome # "ok"]

\* GeocodingCache.save_cache applied to the mapping m: the flush succeeds, or
\* open() fails and the file is left as it was, or the write fails after the
\* file was truncated.  The IOError is caught: nothing is raised.
SaveCache(m, outcome) ==
    [disk |-> CASE outcome = "ok" -> [ok |-> TRUE, data |-> m]
                [] outcome = "open_failed" -> disk
                [] OTHER -> [ok |-> FALSE, data |-> EmptyStore],
     raised |-> FALSE]

FlushOutcomes == {"ok", "open_failed", "write_failed"}

\* the keys clear_old_entries collects in keys_to_delete
KeysToDelete(threshold) ==
    {k \in DOMAIN cache_data :
        LET ts == cache_data[k].timestamp
        IN  /\ ts.kind # "missing"
            /\ \/ ~Parses(ts)
               \/ now - FromIsoFormat(ts) > threshold}

\* the counters of get_stats
ValidKeys ==
    {k \in DOMAIN cache_data :
        LET ts == cache_data[k].timestamp
        IN  ts.kind # "missing" /\ Parses(ts)
            /\ now - FromIsoFormat(ts) <= cache_max_age_days}

ExpiredKeys ==
    {k \in DOMAIN cache_data :
        LET ts == cache_data[k].timestamp
        IN  /\ ts.kind # "missing"
            /\ \/ ~Parses(ts)
               \/ ~(now - FromIsoFormat(ts) <= cache_max_age_days)}

\* GeocodingCache.get_precision_info: the level reported
PrecisionInfo == IF precision \in PRECISION_LEVELS THEN precision ELSE 5

\* GeocodingCache.get_stats
StatsValue ==
    [total |-> Cardinality(DOMAIN cache_data),
     valid |-> Cardinality(ValidKeys),
     expired |-> Cardinality(ExpiredKeys),
     max_age_days |-> cache_max_age_days,
     precision |-> precision,
     precision_name |-> PrecisionInfo]

---------------------------------------------------------------------------
(* Initial state: GeocodingCache.__init__ with the stored settings *)

\* set is not under way
NoKey == << >>

\* MainWindow.__init__: start enabled, stop disabled, no worker
IdleWindow == [start_btn |-> TRUE, stop_btn |-> FALSE, worker |-> FALSE]

\* MainWindow.start_processing: start disabled, stop enabled, worker set
BusyWindow == [start_btn |-> FALSE, stop_btn |-> TRUE, worker |-> TRUE]

\* no worker has been created
NoWorker ==
    /\ directory = << >>
    /\ skip_existing = FALSE
    /\ should_stop = FALSE
    /\ stats = << >>
    /\ pc = "none"
    /\ image_files = << >>
    /\ idx = 0
    /\ meta = << >>
    /\ gps_data = None
    /\ location = None
    /\ events = << >>
    /\ calls = << >>
    /\ dumping = EmptyStore
    /\ cache_key = NoKey
    /\ window = IdleWindow

Init ==
    /\ disk \in InitDisks
    /\ cache_data = LoadCache(disk)
    /\ precision \in InitPrecisions
    /\ cache_max_age_days \in InitMaxAges
    /\ now = 1
    /\ nSets = 0
    /\ last = [op |-> "init"]
    /\ NoWorker

---------------------------------------------------------------------------
(* Operations *)

\* what get returns for each coordinate offered
Retrievable == [c \in CoordInputs |-> GetValue(c[1], c[2])]

\* set_precision dropping the entries recorded under another precision
SetPrecisionDropping(p) ==
    LET q == IF p \in PRECISION_LEVELS THEN p ELSE precision
        m == Without(cache_data,
                     {k \in DOMAIN cache_data : cache_data[k].precision # q})
    IN  /\ precision' = q
        /\ cache_data' = m
        /\ disk' = [ok |-> TRUE, data |-> m]
        /\ last' = [op |-> "set_precision", arg |-> p, raised |-> FALSE,
                    prev |-> precision, was |-> Retrievable,
                    before |-> [cache |-> cache_data, disk |-> disk],
                    back |-> /\ last.op = "set_precision"
                             /\ last.prev = q
                             /\ precision # q,
                    first |-> IF last.op = "set_precision"
                              THEN last.was ELSE Retrievable]
        /\ UNCHANGED <<cache_max_age_days, now, nSets>>
        /\ UNCHANGED wvars

\* GeocodingCache.set_precision; prev, was and before note the precision,
\* what get returned and the store before the call, back that the call undoes
\* the switch made by the call directly before it, and first what get
\* returned before that call
SetPrecision(p) ==
    /\ precision' = IF p \in PRECISION_LEVELS THEN p ELSE precision
    /\ last' = [op |-> "set_precision", arg |-> p, raised |-> FALSE,
                prev |-> precision, was |-> Retrievable,
                before |-> [cache |-> cache_data, disk |-> disk],
                back |-> /\ last.op = "set_precision"
                         /\ last.prev = precision'
                         /\ precision # precision',
                first |-> IF last.op = "set_precision"
                          THEN last.was ELSE Retrievable]
    /\ UNCHANGED <<cache_data, disk, cache_max_age_days, now, nSets>>
    /\ UNCHANGED wvars

\* set_max_age_days accepting zero (the guard written days >= 0)
SetMaxAgeDaysFromZero(d) ==
    /\ cache_max_age_days' = IF d >= 0 THEN d ELSE cache_max_age_days
    /\ last' = [op |-> "set_max_age_days", arg |-> d, raised |-> FALSE]
    /\ UNCHANGED <<cache_data, disk, precision, now, nSets>>
    /\ UNCHANGED wvars

\* set_max_age_days deleting the entries that are older than the new value
SetMaxAgeDaysPurging(d) ==
    /\ cache_max_age_days' = IF d > 0 THEN d ELSE cache_max_age_days
    /\ cache_data' = Without(cache_data,
                             {k \in DOMAIN cache_data :
                                 /\ cache_data[k].timestamp.kind = "iso"
                                 /\ now - cache_data[k].timestamp.t > d})
    /\ last' = [op |-> "set_max_age_days", arg |-> d, raised |-> FALSE]
    /\ UNCHANGED <<disk, precision, now, nSets>>
    /\ UNCHANGED wvars

\* GeocodingCache.set_max_age_days
SetMaxAgeDays(d) ==
    /\ cache_max_age_days' = IF d > 0 THEN d ELSE cache_max_age_days
    /\ last' = [op |-> "set_max_age_days", arg |-> d, raised |-> FALSE]
    /\ UNCHANGED <<cache_data, disk, precision, now, nSets>>
    /\ UNCHANGED wvars

\* get, deleting the entry it finds expired (a lookup that purges eagerly)
GetEvicting(lat, lon) ==
    LET k == GenerateCacheKey(lat, lon)
        stale == k \in DOMAIN cache_data /\ GetByKey(k) = None
    IN  /\ last' = [op |-> "get", lat |-> lat, lon |-> lon,
                    ret |-> GetValue(lat, lon), raised |-> FALSE,
                    after_set |-> "none"]
        /\ cache_data' = IF stale THEN Without(cache_data, {k}) ELSE cache_data
        /\ UNCHANGED <<disk, precision, cache_max_age_days, now, nSets>>
        /\ UNCHANGED wvars

\* GeocodingCache.get; after_set notes the flush outcome of the set that the
\* call directly follows with the same coordinates ("none" when it follows
\* something else)
Get(lat, lon) ==
    /\ last' = [op |-> "get", lat |-> lat, lon |-> lon,
                ret |-> GetValue(lat, lon), raised |-> FALSE,
                after_set |-> IF last.op = "set" /\ last.lat = lat
                                 /\ last.lon = lon
                              THEN last.flush ELSE "none"]
    /\ UNCHANGED <<cache_data, disk, precision, cache_max_age_days, now, nSets>>
    /\ UNCHANGED wvars

\* set flushing before it stores the entry
SetSaveFirst(lat, lon, rec, outcome) ==
    /\ nSets < MaxSets
    /\ nSets' = nSets + 1
    /\ LET k == GenerateCacheKey(lat, lon)
           m == Put(cache_data, k, NewEntry(lat, lon, rec))
           s == SaveCache(cache_data, outcome)
       IN  /\ cache_data' = m
           /\ disk' = s.disk
           /\ last' = [op |-> "set", lat |-> lat, lon |-> lon, rec |-> rec,
                       key |-> k, flush |-> outcome, raised |-> s.raised]
    /\ UNCHANGED <<precision, cache_max_age_days, now>>
    /\ UNCHANGED wvars

\* GeocodingCache.set
Set(lat, lon, rec, outcome) ==
    /\ nSets < MaxSets
    /\ nSets' = nSets + 1
    /\ LET k == GenerateCacheKey(lat, lon)
           m == Put(cache_data, k, NewEntry(lat, lon, rec))
           s == SaveCache(m, outcome)
       IN  /\ cache_data' = m
           /\ disk' = s.disk
           /\ last' = [op |-> "set", lat |-> lat, lon |-> lon, rec |-> rec,
                       key |-> k, flush |-> outcome, raised |-> s.raised]
    /\ UNCHANGED <<precision, cache_max_age_days, now>>
    /\ UNCHANGED wvars

\* GeocodingCache.clear_old_entries; useDefault is max_age_days=None
ClearOldEntries(useDefault, t, outcome) ==
    LET threshold == IF useDefault THEN cache_max_age_days ELSE t
        dead == KeysToDelete(threshold)
        m == Without(cache_data, dead)
        s == IF dead # {} THEN SaveCache(m, outcome)
             ELSE [disk |-> disk, raised |-> FALSE]
    IN  /\ dead = {} => outcome = "ok"
        /\ cache_data' = m
        /\ disk' = s.disk
        /\ last' = [op |-> "clear_old_entries", threshold |-> threshold,
                    ret |-> Cardinality(dead), saved |-> dead # {},
                    flush |-> outcome, raised |-> s.raised]
        /\ UNCHANGED <<precision, cache_max_age_days, now, nSets>>
        /\ UNCHANGED wvars

\* GeocodingCache.get_stats
GetStats ==
    /\ last' = [op |-> "get_stats", ret |-> StatsValue, raised |-> FALSE]
    /\ UNCHANGED <<cache_data, disk, precision, cache_max_age_days, now, nSets>>
    /\ UNCHANGED wvars

\* clear_all_cache emptying the mapping without flushing it
ClearAllCacheNoSave(outcome) ==
    /\ cache_data' = EmptyStore
    /\ last' = [op |-> "clear_all_cache", flush |-> outcome,
                raised |-> FALSE, nonempty |-> DOMAIN cache_data # {}]
    /\ UNCHANGED <<disk, precision, cache_max_age_days, now, nSets>>
    /\ UNCHANGED wvars

\* ConfigDialog.clear_all_cache, the user answering Yes; nonempty notes that
\* there was something to clear
ClearAllCache(outcome) ==
    LET s == SaveCache(EmptyStore, outcome)
    IN  /\ cache_data' = EmptyStore
        /\ disk' = s.disk
        /\ last' = [op |-> "clear_all_cache", flush |-> outcome,
                    raised |-> s.raised, nonempty |-> DOMAIN cache_data # {}]
        /\ UNCHANGED <<precision, cache_max_age_days, now, nSets>>
        /\ UNCHANGED wvars

\* a day passes
Tick ==
    /\ now < MaxNow
    /\ now' = now + 1
    /\ last' = [op |-> "tick"]
    /\ UNCHANGED <<cache_data, disk, precision, cache_max_age_days, nSets>>
    /\ UNCHANGED wvars

Next ==
    \/ \E p \in PrecisionInputs : SetPrecision(p)
    \/ \E d \in MaxAgeInputs : SetMaxAgeDays(d)
    \/ \E c \in CoordInputs : Get(c[1], c[2])
    \/ \E c \in SetInputs, rec \in NewRecords, o \in FlushOutcomes :
          Set(c[1], c[2], rec, o)
    \/ \E u \in BOOLEAN :
          \E t \in (IF u THEN {cache_max_age_days} ELSE Thresholds) :
             \E o \in FlushOutcomes : ClearOldEntries(u, t, o)
    \/ GetStats
    \/ \E o \in FlushOutcomes : ClearAllCache(o)
    \/ Tick

Spec == Init /\ [][Next]_vars

---------------------------------------------------------------------------
(* The worker run (src/worker.py) *)

\* image files: fA, fB and fP carry a GPS position, fN carries none
Files == {"fA", "fB", "fP", "fN"}

\* what ExifTool prints for -GPSLatitude -GPSLongitude -n, parsed
GpsOf(f) ==
    CASE f = "fA" -> CoordA
      [] f = "fB" -> CoordB
      [] f = "fP" -> CoordC
      [] OTHER -> None

\* a file without city, state and country tags
NoTags == [city |-> "", state |-> "", country |-> ""]

\* the city, state and country of a location record; the service leaves out
\* the state of r1 and all three of r0 (a feature with a name only), so
\* reverse_geocode fills them with ''
Fields(rec) ==
    CASE rec = "r0" -> NoTags
      [] rec = "r1" -> [city |-> "Paris", state |-> "", country |-> "France"]
      [] OTHER -> [city |-> "Kiel", state |-> "Schleswig-Holstein",
                   country |-> "Deutschland"]

\* the tags the files hold when the run starts: fB was tagged with r2 and fP
\* with r1 by an earlier run
InitMeta ==
    [f \in Files |-> CASE f = "fB" -> Fields("r2")
                       [] f = "fP" -> Fields("r1")
                       [] OTHER -> NoTags]

\* the file lists find_image_files may return
Directories ==
    { << >>, <<"fN">>, <<"fA", "fB">>, <<"fB", "fP">>, <<"fP", "fN">> }

\* the record the geocoding service answers with
HttpRecords == {"r1"}

\* outcomes of the external calls
ProbeOutcomes == {"ok", "failed"}
GpsOutcomes == {"ok", "failed", "raised"}
HttpOutcomes == {"ok", "no_features", "failed"}
CompareOutcomes == {"ok", "no_output", "raised"}
WriteOutcomes == {"ok", "nonzero", "timeout"}

\* bool(x) for a record or None
Truthy(x) == x # None

ZeroStats ==
    [cache_hits |-> 0, api_calls |-> 0, total_processed |-> 0,
     skipped_already_tagged |-> 0, skipped_no_gps |-> 0,
     metadata_written |-> 0, metadata_unchanged |-> 0]

\* the signals of the worker
Log(t) == [ev |-> "log", text |-> t, file |-> idx]
Progress(i, n) == [ev |-> "progress", current |-> i, total |-> n]
CacheStats(s) == [ev |-> "cache_stats", stats |-> s]
Finished == [ev |-> "finished"]
ErrorEvent == [ev |-> "error"]

\* a step of process_image or an external call, made for the file begun
\* last, and what came of it: the text the probe printed, the stat() of
\* get_gps_data that raised, the position the GPS read returned, the record
\* get returned, the outcome of the request,
\* the day set stamped the entry with, the outcomes of compare and write
Call(step, res) == [step |-> step, file |-> idx, res |-> res]

\* the file process_image works on
CurrentFile == image_files[idx]

\* the lines ExifTool prints with -s3: the values of the tags that exist,
\* one per line
ToolLines(m) ==
    SelectSeq(<<m.city, m.state, m.country>>, LAMBDA v : v # "")

\* compare_location_data once the tool has printed lines: the lines are
\* taken as city, state, country by position
CompareLines(lines, rec) ==
    LET existing_city == IF Len(lines) > 0 THEN lines[1] ELSE ""
        existing_state == IF Len(lines) > 1 THEN lines[2] ELSE ""
        existing_country == IF Len(lines) > 2 THEN lines[3] ELSE ""
        new == Fields(rec)
    IN  ~(/\ existing_city = new.city
          /\ existing_state = new.state
          /\ existing_country = new.country)

\* compare_location_data: TRUE when the file is to be written
CompareLocationData(f, rec, outcome) ==
    CASE outcome = "ok" -> CompareLines(ToolLines(meta[f]), rec)
      [] outcome = "no_output" -> CompareLines(<< >>, rec)
      [] OTHER -> TRUE

\* the tags of a file after write_location_data: only the non-empty fields
\* of the record are passed to the tool
Written(m, rec) ==
    LET new == Fields(rec)
    IN  [city |-> IF new.city # "" THEN new.city ELSE m.city,
         state |-> IF new.state # "" THEN new.state ELSE m.state,
         country |-> IF new.country # "" THEN new.country ELSE m.country]

\* the text check_existing_location_data gets from the tool (the city tags),
\* stripped; a call that fails counts as no text
ProbeText(f, outcome) == IF outcome = "ok" THEN meta[f].city ELSE ""

\* GeocodingWorker.__init__ and start(), the cache as the main window built it
WorkerInit ==
    /\ disk \in InitDisks
    /\ cache_data = LoadCache(disk)
    /\ precision \in InitPrecisions
    /\ cache_max_age_days \in InitMaxAges
    /\ now = 1
    /\ nSets = 0
    /\ last = [op |-> "init"]
    /\ directory \in Directories
    /\ skip_existing \in BOOLEAN
    /\ should_stop = FALSE
    /\ stats = ZeroStats
    /\ pc = "start"
    /\ image_files = << >>
    /\ idx = 0
    /\ meta = InitMeta
    /\ gps_data = None
    /\ location = None
    /\ events = << >>
    /\ calls = << >>
    /\ dumping = EmptyStore
    /\ cache_key = NoKey
    /\ window = BusyWindow

\* run() without the return after 'no files found'
RunStartNoReturn ==
    /\ pc = "start"
    /\ image_files' = directory
    /\ IF directory = << >>
       THEN /\ events' = events \o <<Log("search"), Log("no_files"), Finished>>
            /\ pc' = "boundary"
       ELSE /\ events' = events \o <<Log("search"), Log("found"),
                                     Log("precision"), Log("max_age")>>
                         \o (IF skip_existing THEN <<Log("skip_mode")>>
                             ELSE << >>)
                         \o <<Log("rule")>>
            /\ pc' = "boundary"
    /\ UNCHANGED <<directory, skip_existing, should_stop, stats, idx, meta,
                   gps_data, location, calls>>
    /\ UNCHANGED cvars
    /\ UNCHANGED dumping
    /\ UNCHANGED <<cache_key, window>>

\* run() emitting a progress signal before it reports that there is no file
RunStartWithProgress ==
    /\ pc = "start"
    /\ image_files' = directory
    /\ IF directory = << >>
       THEN /\ events' = events \o <<Log("search"), Progress(0, 0),
                                     Log("no_files"), Finished>>
            /\ pc' = "done"
       ELSE /\ events' = events \o <<Log("search"), Log("found"),
                                     Log("precision"), Log("max_age")>>
                         \o (IF skip_existing THEN <<Log("skip_mode")>>
                             ELSE << >>)
                         \o <<Log("rule")>>
            /\ pc' = "boundary"
    /\ UNCHANGED <<directory, skip_existing, should_stop, stats, idx, meta,
                   gps_data, location, calls>>
    /\ UNCHANGED cvars
    /\ UNCHANGED dumping
    /\ UNCHANGED <<cache_key, window>>

\* run() up to the for loop
RunStart ==
    /\ pc = "start"
    /\ image_files' = directory
    /\ IF directory = << >>
       THEN /\ events' = events \o <<Log("search"), Log("no_files"), Finished>>
            /\ pc' = "done"
       ELSE /\ events' = events \o <<Log("search"), Log("found"),
                                     Log("precision"), Log("max_age")>>
                         \o (IF skip_existing THEN <<Log("skip_mode")>>
                             ELSE << >>)
                         \o <<Log("rule")>>
            /\ pc' = "boundary"
    /\ UNCHANGED <<directory, skip_existing, should_stop, stats, idx, meta,
                   gps_data, location, calls>>
    /\ UNCHANGED cvars
    /\ UNCHANGED dumping
    /\ UNCHANGED <<cache_key, window>>

\* the for loop testing the flag after it emitted the progress signal
BoundaryLateCheck ==
    /\ pc = "boundary"
    /\ IF idx = Len(image_files)
       THEN /\ pc' = "summary"
            /\ UNCHANGED <<idx, events>>
       ELSE IF should_stop
       THEN /\ events' = events \o
                  <<Progress(idx + 1, Len(image_files)), Log("cancelled")>>
            /\ pc' = "summary"
            /\ UNCHANGED idx
       ELSE /\ idx' = idx + 1
            /\ events' = events \o
                  <<Progress(idx + 1, Len(image_files)),
                    [ev |-> "log", text |-> "file", file |-> idx + 1]>>
            /\ pc' = IF skip_existing THEN "probe" ELSE "gps"
    /\ UNCHANGED <<directory, skip_existing, should_stop, stats, image_files,
                   meta, gps_data, location, calls>>
    /\ UNCHANGED cvars
    /\ UNCHANGED dumping
    /\ UNCHANGED <<cache_key, window>>

\* the for loop emitting the progress signal after the first line of the file
BoundaryProgressLast ==
    /\ pc = "boundary"
    /\ IF idx = Len(image_files)
       THEN /\ pc' = "summary"
            /\ UNCHANGED <<idx, events>>
       ELSE IF should_stop
       THEN /\ events' = Append(events, Log("cancelled"))
            /\ pc' = "summary"
            /\ UNCHANGED idx
       ELSE /\ idx' = idx + 1
            /\ events' = events \o
                  <<[ev |-> "log", text |-> "file", file |-> idx + 1],
                    Progress(idx + 1, Len(image_files))>>
            /\ pc' = IF skip_existing THEN "probe" ELSE "gps"
    /\ UNCHANGED <<directory, skip_existing, should_stop, stats, image_files,
                   meta, gps_data, location, calls>>
    /\ UNCHANGED cvars
    /\ UNCHANGED dumping
    /\ UNCHANGED <<cache_key, window>>

\* the head of the for loop, and the first line of process_image
Boundary ==
    /\ pc = "boundary"
    /\ IF idx = Len(image_files)
       THEN /\ pc' = "summary"
            /\ UNCHANGED <<idx, events>>
       ELSE IF should_stop
       THEN /\ events' = Append(events, Log("cancelled"))
            /\ pc' = "summary"
            /\ UNCHANGED idx
       ELSE /\ idx' = idx + 1
            /\ events' = events \o
                  <<Progress(idx + 1, Len(image_files)),
                    [ev |-> "log", text |-> "file", file |-> idx + 1]>>
            /\ pc' = IF skip_existing THEN "probe" ELSE "gps"
    /\ UNCHANGED <<directory, skip_existing, should_stop, stats, image_files,
                   meta, gps_data, location, calls>>
    /\ UNCHANGED cvars
    /\ UNCHANGED dumping
    /\ UNCHANGED <<cache_key, window>>

\* the skip-existing test counting the file and going on to the GPS read
ProbeGoingOn(outcome) ==
    /\ pc = "probe"
    /\ calls' = Append(calls, Call("probe", ProbeText(CurrentFile, outcome)))
    /\ IF ProbeText(CurrentFile, outcome) # ""
       THEN /\ events' = Append(events, Log("already_tagged"))
            /\ stats' = [stats EXCEPT !.skipped_already_tagged = @ + 1]
            /\ pc' = "gps"
       ELSE /\ pc' = "gps"
            /\ UNCHANGED <<events, stats>>
    /\ UNCHANGED <<directory, skip_existing, should_stop, image_files, idx,
                   meta, gps_data, location>>
    /\ UNCHANGED cvars
    /\ UNCHANGED dumping
    /\ UNCHANGED <<cache_key, window>>

\* the skip-existing test ending the file without counting it
ProbeUncounted(outcome) ==
    /\ pc = "probe"
    /\ calls' = Append(calls, Call("probe", ProbeText(CurrentFile, outcome)))
    /\ IF ProbeText(CurrentFile, outcome) # ""
       THEN /\ events' = Append(events, Log("already_tagged"))
            /\ pc' = "boundary"
            /\ UNCHANGED stats
       ELSE /\ pc' = "gps"
            /\ UNCHANGED <<events, stats>>
    /\ UNCHANGED <<directory, skip_existing, should_stop, image_files, idx,
                   meta, gps_data, location>>
    /\ UNCHANGED cvars
    /\ UNCHANGED dumping
    /\ UNCHANGED <<cache_key, window>>

\* process_image: the skip-existing test with check_existing_location_data
Probe(outcome) ==
    /\ pc = "probe"
    /\ calls' = Append(calls, Call("probe", ProbeText(CurrentFile, outcome)))
    /\ IF ProbeText(CurrentFile, outcome) # ""
       THEN /\ events' = Append(events, Log("already_tagged"))
            /\ stats' = [stats EXCEPT !.skipped_already_tagged = @ + 1]
            /\ pc' = "boundary"
       ELSE /\ pc' = "gps"
            /\ UNCHANGED <<events, stats>>
    /\ UNCHANGED <<directory, skip_existing, should_stop, image_files, idx,
                   meta, gps_data, location>>
    /\ UNCHANGED cvars
    /\ UNCHANGED dumping
    /\ UNCHANGED <<cache_key, window>>

\* process_image counting a file without position as processed
GpsReadCounting(outcome) ==
    /\ pc = "gps"
    /\ LET g == IF outcome = "ok" THEN GpsOf(CurrentFile) ELSE None
       IN  /\ calls' = Append(calls, IF outcome = "raised"
                                  THEN Call("stat", "raised")
                                  ELSE Call("gps", g))
           /\ IF outcome = "raised"
              THEN /\ events' = Append(events, ErrorEvent)
                   /\ pc' = "done"
                   /\ UNCHANGED <<stats, gps_data>>
              ELSE IF g = None
              THEN /\ events' = Append(events, Log("no_gps"))
                   /\ stats' = [stats EXCEPT !.skipped_no_gps = @ + 1,
                                             !.total_processed = @ + 1]
                   /\ pc' = "boundary"
                   /\ gps_data' = None
              ELSE /\ events' = Append(events, Log("gps"))
                   /\ gps_data' = g
                   /\ pc' = "resolve"
                   /\ UNCHANGED stats
    /\ UNCHANGED <<directory, skip_existing, should_stop, image_files, idx,
                   meta, location>>
    /\ UNCHANGED cvars
    /\ UNCHANGED dumping
    /\ UNCHANGED <<cache_key, window>>

\* run() reporting the exception and going on with the next file
GpsReadSwallowing(outcome) ==
    /\ pc = "gps"
    /\ LET g == IF outcome = "ok" THEN GpsOf(CurrentFile) ELSE None
       IN  /\ calls' = Append(calls, IF outcome = "raised"
                                  THEN Call("stat", "raised")
                                  ELSE Call("gps", g))
           /\ IF outcome = "raised"
              THEN /\ events' = Append(events, ErrorEvent)
                   /\ pc' = "boundary"
                   /\ UNCHANGED <<stats, gps_data>>
              ELSE IF g = None
              THEN /\ events' = Append(events, Log("no_gps"))
                   /\ stats' = [stats EXCEPT !.skipped_no_gps = @ + 1]
                   /\ pc' = "boundary"
                   /\ gps_data' = None
              ELSE /\ events' = Append(events, Log("gps"))
                   /\ gps_data' = g
                   /\ pc' = "resolve"
                   /\ UNCHANGED stats
    /\ UNCHANGED <<directory, skip_existing, should_stop, image_files, idx,
                   meta, location>>
    /\ UNCHANGED cvars
    /\ UNCHANGED dumping
    /\ UNCHANGED <<cache_key, window>>

\* process_image: get_gps_data and the test of its result; "raised" is an
\* exception of stat() on a file that vanished, which get_gps_data does not
\* catch and run() reports
GpsRead(outcome) ==
    /\ pc = "gps"
    /\ LET g == IF outcome = "ok" THEN GpsOf(CurrentFile) ELSE None
       IN  /\ IF outcome = "raised"
              THEN /\ pc' = "done"
                   /\ calls' = Append(calls, Call("stat", "raised"))
                   /\ events' = Append(events, ErrorEvent)
                   /\ UNCHANGED <<stats, gps_data>>
              ELSE IF g = None
              THEN /\ pc' = "boundary"
                   /\ calls' = Append(calls, Call("gps", None))
                   /\ events' = Append(events, Log("no_gps"))
                   /\ stats' = [stats EXCEPT !.skipped_no_gps = @ + 1]
                   /\ gps_data' = None
              ELSE /\ pc' = "resolve"
                   /\ calls' = Append(calls, Call("gps", g))
                   /\ events' = Append(events, Log("gps"))
                   /\ gps_data' = g
                   /\ UNCHANGED stats
    /\ UNCHANGED <<directory, skip_existing, should_stop, image_files, idx,
                   meta, location>>
    /\ UNCHANGED cvars
    /\ UNCHANGED dumping
    /\ UNCHANGED <<cache_key, window>>

\* reverse_geocode storing the record again on a cache hit
ResolveHitRefreshing(cached_data) ==
    LET m == Put(cache_data, GenerateCacheKey(gps_data[1], gps_data[2]),
                 NewEntry(gps_data[1], gps_data[2], cached_data))
    IN  /\ calls' = Append(calls, Call("get", cached_data))
        /\ stats' = [stats EXCEPT !.cache_hits = @ + 1,
                                  !.total_processed = @ + 1]
        /\ location' = cached_data
        /\ events' = events \o <<Log("cache_hit"), Log("location")>>
        /\ pc' = "compare"
        /\ cache_data' = m
        /\ disk' = SaveCache(m, "ok").disk

\* reverse_geocode on a cache hit, and process_image up to the compare
ResolveHit(cached_data) ==
    /\ calls' = Append(calls, Call("get", cached_data))
    /\ stats' = [stats EXCEPT !.cache_hits = @ + 1,
                              !.total_processed = @ + 1]
    /\ location' = cached_data
    /\ events' = events \o <<Log("cache_hit"), Log("location")>>
    /\ pc' = "compare"
    /\ UNCHANGED <<cache_data, disk>>

\* reverse_geocode on a miss answered with a record, and process_image up
\* to the compare
ResolveStored(lat, lon, rec, flush) ==
    LET m == Put(cache_data, GenerateCacheKey(lat, lon),
                 NewEntry(lat, lon, rec))
    IN  /\ calls' = calls \o <<Call("get", None), Call("http", "ok"),
                                Call("set", now)>>
        /\ cache_data' = m
        /\ disk' = SaveCache(m, flush).disk
        /\ stats' = [stats EXCEPT !.api_calls = @ + 1,
                                  !.total_processed = @ + 1]
        /\ location' = rec
        /\ events' = events \o <<Log("api_query"), Log("location")>>
        /\ pc' = "compare"

\* reverse_geocode storing a placeholder entry when the request fails
ResolveAbsentCaching(lat, lon, http) ==
    LET m == Put(cache_data, GenerateCacheKey(lat, lon),
                 NewEntry(lat, lon, None))
    IN  /\ calls' = calls \o <<Call("get", None), Call("http", http)>>
        /\ stats' = [stats EXCEPT !.api_calls = @ + 1]
        /\ location' = None
        /\ events' = events \o <<Log("api_query"), Log("no_location")>>
        /\ pc' = "boundary"
        /\ cache_data' = m
        /\ disk' = SaveCache(m, "ok").disk

\* reverse_geocode on a miss when the request fails or the answer has no
\* features, and process_image ending the file
ResolveAbsent(lat, lon, http) ==
    /\ calls' = calls \o <<Call("get", None), Call("http", http)>>
    /\ stats' = [stats EXCEPT !.api_calls = @ + 1]
    /\ location' = None
    /\ events' = events \o
          <<Log("api_query")>> \o
          (IF http = "failed" THEN <<Log("api_error")>> ELSE << >>) \o
          <<Log("no_location")>>
    /\ pc' = "boundary"
    /\ UNCHANGED <<cache_data, disk>>

\* process_image: reverse_geocode and the test of its result
Resolve(http, rec, flush) ==
    /\ pc = "resolve"
    /\ LET lat == gps_data[1]
           lon == gps_data[2]
           cached_data == GetValue(lat, lon)
       IN  IF Truthy(cached_data)
           THEN http = "ok" /\ flush = "ok" /\ ResolveHit(cached_data)
           ELSE IF http = "ok"
           THEN ResolveStored(lat, lon, rec, flush)
           ELSE flush = "ok" /\ ResolveAbsent(lat, lon, http)
    /\ UNCHANGED <<directory, skip_existing, should_stop, image_files, idx,
                   meta, gps_data>>
    /\ UNCHANGED <<precision, cache_max_age_days, now, nSets, last>>
    /\ UNCHANGED dumping
    /\ UNCHANGED <<cache_key, window>>

\* process_image going on to the write whatever the compare returned
CompareAlwaysWriting(outcome) ==
    /\ pc = "compare"
    /\ calls' = Append(calls, Call("compare", outcome))
    /\ pc' = "write"
    /\ UNCHANGED <<events, stats>>
    /\ UNCHANGED <<directory, skip_existing, should_stop, image_files, idx,
                   meta, gps_data, location>>
    /\ UNCHANGED cvars
    /\ UNCHANGED dumping
    /\ UNCHANGED <<cache_key, window>>

\* process_image: compare_location_data and the test of its result
Compare(outcome) ==
    /\ pc = "compare"
    /\ calls' = Append(calls, Call("compare", outcome))
    /\ IF ~CompareLocationData(CurrentFile, location, outcome)
       THEN /\ events' = Append(events, Log("unchanged"))
            /\ stats' = [stats EXCEPT !.metadata_unchanged = @ + 1]
            /\ pc' = "boundary"
       ELSE /\ pc' = "write"
            /\ UNCHANGED <<events, stats>>
    /\ UNCHANGED <<directory, skip_existing, should_stop, image_files, idx,
                   meta, gps_data, location>>
    /\ UNCHANGED cvars
    /\ UNCHANGED dumping
    /\ UNCHANGED <<cache_key, window>>

\* process_image letting a failed write escape to run()
WriteEscaping(outcome) ==
    /\ pc = "write"
    /\ calls' = Append(calls, Call("write", outcome))
    /\ IF outcome = "ok"
       THEN /\ events' = Append(events, Log("written"))
            /\ stats' = [stats EXCEPT !.metadata_written = @ + 1]
            /\ meta' = [meta EXCEPT ![CurrentFile] = Written(@, location)]
            /\ pc' = "boundary"
       ELSE /\ events' = Append(events, ErrorEvent)
            /\ pc' = "done"
            /\ UNCHANGED <<stats, meta>>
    /\ UNCHANGED <<directory, skip_existing, should_stop, image_files, idx,
                   gps_data, location>>
    /\ UNCHANGED cvars
    /\ UNCHANGED dumping
    /\ UNCHANGED <<cache_key, window>>

\* write_location_data counting the file as written whatever the tool did
WriteCountingAlways(outcome) ==
    /\ pc = "write"
    /\ calls' = Append(calls, Call("write", outcome))
    /\ stats' = [stats EXCEPT !.metadata_written = @ + 1]
    /\ IF outcome = "ok"
       THEN /\ events' = Append(events, Log("written"))
            /\ meta' = [meta EXCEPT ![CurrentFile] = Written(@, location)]
       ELSE /\ events' = Append(events, Log("write_failed"))
            /\ UNCHANGED meta
    /\ pc' = "boundary"
    /\ UNCHANGED <<directory, skip_existing, should_stop, image_files, idx,
                   gps_data, location>>
    /\ UNCHANGED cvars
    /\ UNCHANGED dumping
    /\ UNCHANGED <<cache_key, window>>

\* write_location_data calling the tool without a timeout: the call does
\* not return
WriteHanging(outcome) ==
    /\ pc = "write"
    /\ IF outcome = "timeout"
       THEN /\ pc' = "write_wait"
            /\ UNCHANGED <<calls, events, stats, meta>>
       ELSE /\ calls' = Append(calls, Call("write", outcome))
            /\ events' = Append(events, Log("written"))
            /\ stats' = [stats EXCEPT !.metadata_written = @ + 1]
            /\ meta' = [meta EXCEPT ![CurrentFile] = Written(@, location)]
            /\ pc' = "boundary"
    /\ UNCHANGED <<directory, skip_existing, should_stop, image_files, idx,
                   gps_data, location>>
    /\ UNCHANGED cvars
    /\ UNCHANGED dumping
    /\ UNCHANGED <<cache_key, window>>

\* process_image: write_location_data
Write(outcome) ==
    /\ pc = "write"
    /\ calls' = Append(calls, Call("write", outcome))
    /\ IF outcome = "ok"
       THEN /\ events' = Append(events, Log("written"))
            /\ stats' = [stats EXCEPT !.metadata_written = @ + 1]
            /\ meta' = [meta EXCEPT ![CurrentFile] = Written(@, location)]
       ELSE /\ events' = Append(events, Log("write_failed"))
            /\ UNCHANGED <<stats, meta>>
    /\ pc' = "boundary"
    /\ UNCHANGED <<directory, skip_existing, should_stop, image_files, idx,
                   gps_data, location>>
    /\ UNCHANGED cvars
    /\ UNCHANGED dumping
    /\ UNCHANGED <<cache_key, window>>

\* run() after the for loop
Summary ==
    /\ pc = "summary"
    /\ events' = events \o <<Log("summary"), CacheStats(stats), Log("done"),
                             Finished>>
    /\ pc' = "done"
    /\ UNCHANGED <<directory, skip_existing, should_stop, stats, image_files,
                   idx, meta, gps_data, location, calls>>
    /\ UNCHANGED cvars
    /\ UNCHANGED dumping
    /\ UNCHANGED <<cache_key, window>>

\* GeocodingWorker.stop, called by the main window's stop button
Stop ==
    /\ pc \notin {"none", "done"}
    /\ ~should_stop
    /\ should_stop' = TRUE
    /\ UNCHANGED <<directory, skip_existing, stats, pc, image_files, idx,
                   meta, gps_data, location, events, calls>>
    /\ UNCHANGED cvars
    /\ UNCHANGED dumping
    /\ UNCHANGED <<cache_key, window>>

WorkerNext ==
    \/ RunStart
    \/ Boundary
    \/ \E o \in ProbeOutcomes : Probe(o)
    \/ \E o \in GpsOutcomes : GpsRead(o)
    \/ \E h \in HttpOutcomes, rec \in HttpRecords, o \in FlushOutcomes :
          Resolve(h, rec, o)
    \/ \E o \in CompareOutcomes : Compare(o)
    \/ \E o \in WriteOutcomes : Write(o)
    \/ Summary
    \/ Stop
    \/ Tick

WorkerSpec == WorkerInit /\ [][WorkerNext]_vars

---------------------------------------------------------------------------
(* Runs one after the other over the same directory *)

\* bound: the number of runs started
MaxRuns == 2

\* the mark among the calls where a further run was started
StartMark == [step |-> "start", file |-> 0, res |-> "run"]

\* the number of runs started so far
RunsStarted ==
    1 + Cardinality({j \in DOMAIN calls : calls[j].step = "start"})

\* MainWindow.start_processing once the run before is over: the same
\* directory and skip setting, the same cache object, a new worker; the log
\* view is cleared
StartAgain ==
    /\ pc = "done"
    /\ RunsStarted < MaxRuns
    /\ pc' = "start"
    /\ should_stop' = FALSE
    /\ stats' = ZeroStats
    /\ image_files' = << >>
    /\ idx' = 0
    /\ gps_data' = None
    /\ location' = None
    /\ events' = << >>
    /\ calls' = Append(calls, StartMark)
    /\ UNCHANGED <<directory, skip_existing, meta>>
    /\ UNCHANGED cvars
    /\ UNCHANGED dumping
    /\ UNCHANGED <<cache_key, window>>

\* the runs: the tool works, the request succeeds or fails, the flush
\* succeeds, nobody cancels and no day passes
RerunNext ==
    \/ RunStart
    \/ Boundary
    \/ Probe("ok")
    \/ GpsRead("ok")
    \/ \E h \in {"ok", "failed"}, rec \in HttpRecords : Resolve(h, rec, "ok")
    \/ Compare("ok")
    \/ Write("ok")
    \/ Summary
    \/ StartAgain

RerunSpec == WorkerInit /\ [][RerunNext]_vars

---------------------------------------------------------------------------
(* One file through the compare, for every combination of tags *)

\* the city, state and country tags a file may hold when the run starts
TagValues ==
    [city : {"", "Paris", "Kiel"},
     state : {"", "Schleswig-Holstein"},
     country : {"", "France", "Deutschland"}]

\* the records the service may answer with
Candidates == {"r0", "r1", "r2"}

\* a worker over a directory with the one file fA, no cache file yet
CompareInit ==
    /\ disk = [ok |-> FALSE, data |-> EmptyStore]
    /\ cache_data = LoadCache(disk)
    /\ precision = 5
    /\ cache_max_age_days = 1
    /\ now = 1
    /\ nSets = 0
    /\ last = [op |-> "init"]
    /\ directory = <<"fA">>
    /\ skip_existing = FALSE
    /\ should_stop = FALSE
    /\ stats = ZeroStats
    /\ pc = "start"
    /\ image_files = << >>
    /\ idx = 0
    /\ meta \in {[InitMeta EXCEPT !["fA"] = t] : t \in TagValues}
    /\ gps_data = None
    /\ location = None
    /\ events = << >>
    /\ calls = << >>
    /\ dumping = EmptyStore
    /\ cache_key = NoKey
    /\ window = BusyWindow

\* the run of that worker: the GPS read and the request succeed, compare
\* and write end in any of their outcomes
CompareNext ==
    \/ RunStart
    \/ Boundary
    \/ GpsRead("ok")
    \/ \E rec \in Candidates : Resolve("ok", rec, "ok")
    \/ \E o \in CompareOutcomes : Compare(o)
    \/ \E o \in WriteOutcomes : Write(o)
    \/ Summary

CompareSpec == CompareInit /\ [][CompareNext]_vars

---------------------------------------------------------------------------
(* The worker thread and the settings dialog on the one cache object *)

\* what the iteration of json.dump met when clear_old_entries deleted keys
\* of the mapping it was handed: the mapping as it was ("old", the
\* iteration was through), the mapping without the keys ("new", it had not
\* begun), or a change of size under way ("changing", RuntimeError)
DumpViews == {"old", "new", "changing"}

\* a worker over two files; the dialog is open while it runs
ConcInit ==
    /\ disk \in InitDisks
    /\ cache_data = LoadCache(disk)
    /\ precision \in InitPrecisions
    /\ cache_max_age_days \in InitMaxAges
    /\ now = 1
    /\ nSets = 0
    /\ last = [op |-> "init"]
    /\ directory = <<"fA", "fB">>
    /\ skip_existing = FALSE
    /\ should_stop = FALSE
    /\ stats = ZeroStats
    /\ pc = "start"
    /\ image_files = << >>
    /\ idx = 0
    /\ meta = InitMeta
    /\ gps_data = None
    /\ location = None
    /\ events = << >>
    /\ calls = << >>
    /\ dumping = EmptyStore
    /\ cache_key = NoKey
    /\ window = BusyWindow

\* reverse_geocode up to the assignment in GeocodingCache.set: the lookup
\* and, on a miss, the request answered with a record and the entry put
\* into the mapping; location holds location_data from here on
ResolveAssign(rec) ==
    /\ pc = "resolve"
    /\ LET lat == gps_data[1]
           lon == gps_data[2]
           cached_data == GetValue(lat, lon)
       IN  IF Truthy(cached_data)
           THEN ResolveHit(cached_data)
           ELSE /\ calls' = calls \o <<Call("get", None), Call("http", "ok")>>
                /\ cache_data' = Put(cache_data, GenerateCacheKey(lat, lon),
                                     NewEntry(lat, lon, rec))
                /\ stats' = [stats EXCEPT !.api_calls = @ + 1]
                /\ location' = rec
                /\ events' = Append(events, Log("api_query"))
                /\ pc' = "flush_open"
                /\ UNCHANGED disk
    /\ UNCHANGED <<directory, skip_existing, should_stop, image_files, idx,
                   meta, gps_data, dumping>>
    /\ UNCHANGED <<precision, cache_max_age_days, now, nSets, last>>
    /\ UNCHANGED <<cache_key, window>>

\* save_cache called by set: open(..., 'w') truncates the file and
\* json.dump is handed the mapping cache_data refers to
FlushOpen ==
    /\ pc = "flush_open"
    /\ disk' = [ok |-> FALSE, data |-> EmptyStore]
    /\ dumping' = cache_data
    /\ pc' = "flush_close"
    /\ UNCHANGED <<cache_data, precision, cache_max_age_days, now, nSets,
                   last>>
    /\ UNCHANGED <<directory, skip_existing, should_stop, stats, image_files,
                   idx, meta, gps_data, location, events, calls>>
    /\ UNCHANGED <<cache_key, window>>

\* save_cache called by set: json.dump ends and the file is closed, the
\* text written from its start; then set and reverse_geocode return. The
\* dialog's full clear binds cache_data to a new mapping (it is empty until
\* the worker's next set), so the mapping handed to json.dump is written as
\* it was; clear_old_entries deletes in the mapping itself. A RuntimeError
\* of the iteration leaves a truncated file and is caught by
\* reverse_geocode, which returns None.
FlushClose(seen) ==
    /\ pc = "flush_close"
    /\ LET rebound == cache_data = EmptyStore
           shrunk == cache_data # dumping /\ ~rebound
       IN  /\ ~shrunk => seen = "old"
           /\ IF seen = "changing"
              THEN /\ disk' = [ok |-> FALSE, data |-> EmptyStore]
                   /\ calls' = Append(calls, Call("set_failed", now))
                   /\ location' = None
                   /\ events' = events \o <<Log("exception"),
                                            Log("no_location")>>
                   /\ pc' = "boundary"
                   /\ UNCHANGED stats
              ELSE /\ disk' = [ok |-> TRUE,
                               data |-> IF seen = "new" THEN cache_data
                                        ELSE dumping]
                   /\ calls' = Append(calls, Call("set", now))
                   /\ stats' = [stats EXCEPT !.total_processed = @ + 1]
                   /\ events' = Append(events, Log("location"))
                   /\ pc' = "compare"
                   /\ UNCHANGED location
    /\ dumping' = EmptyStore
    /\ UNCHANGED <<cache_data, precision, cache_max_age_days, now, nSets,
                   last>>
    /\ UNCHANGED <<directory, skip_existing, should_stop, image_files, idx,
                   meta, gps_data>>
    /\ UNCHANGED <<cache_key, window>>

\* the worker is running (the dialog can be opened at any time)
Running == pc \notin {"none", "done"}

\* ConfigDialog.clear_old_cache_entries during the run
DialogClearOld == Running /\ ClearOldEntries(TRUE, cache_max_age_days, "ok")

\* ConfigDialog.clear_all_cache during the run
DialogClearAll == Running /\ ClearAllCache("ok")

\* ConfigDialog.save_config during the run: set_precision
DialogSetPrecision(p) == Running /\ SetPrecision(p)

\* ConfigDialog.save_config during the run: set_max_age_days
DialogSetMaxAgeDays(d) == Running /\ SetMaxAgeDays(d)

\* the steps of the two threads in any order; the tool and the service
\* work, the day does not change
ConcNext ==
    \/ RunStart
    \/ Boundary
    \/ GpsRead("ok")
    \/ \E rec \in HttpRecords : ResolveAssign(rec)
    \/ FlushOpen
    \/ \E v \in DumpViews : FlushClose(v)
    \/ Compare("ok")
    \/ Write("ok")
    \/ Summary
    \/ DialogClearOld
    \/ DialogClearAll
    \/ \E p \in InitPrecisions : DialogSetPrecision(p)
    \/ \E d \in InitMaxAges : DialogSetMaxAgeDays(d)

ConcSpec == ConcInit /\ [][ConcNext]_vars

---------------------------------------------------------------------------
(* GeocodingCache.set in the worker while the dialog saves a precision *)

\* reverse_geocode up to the first statement of GeocodingCache.set: the
\* lookup and, on a miss, the request answered with a record and the key
\* derived with the precision of this moment
ResolveKey(rec) ==
    /\ pc = "resolve"
    /\ LET lat == gps_data[1]
           lon == gps_data[2]
           cached_data == GetValue(lat, lon)
       IN  IF Truthy(cached_data)
           THEN /\ ResolveHit(cached_data)
                /\ UNCHANGED cache_key
           ELSE /\ calls' = calls \o <<Call("get", None), Call("http", "ok")>>
                /\ cache_key' = GenerateCacheKey(lat, lon)
                /\ stats' = [stats EXCEPT !.api_calls = @ + 1]
                /\ location' = rec
                /\ events' = Append(events, Log("api_query"))
                /\ pc' = "set_entry"
                /\ UNCHANGED <<cache_data, disk>>
    /\ UNCHANGED <<directory, skip_existing, should_stop, image_files, idx,
                   meta, gps_data, dumping, window>>
    /\ UNCHANGED <<precision, cache_max_age_days, now, nSets, last>>

\* the second statement of GeocodingCache.set: the entry is built with the
\* precision of this moment and stored under the key derived before
SetEntry ==
    /\ pc = "set_entry"
    /\ cache_data' = Put(cache_data, cache_key,
                         NewEntry(gps_data[1], gps_data[2], location))
    /\ cache_key' = NoKey
    /\ pc' = "flush_open"
    /\ UNCHANGED <<disk, precision, cache_max_age_days, now, nSets, last>>
    /\ UNCHANGED <<directory, skip_existing, should_stop, stats, image_files,
                   idx, meta, gps_data, location, events, calls, dumping,
                   window>>

\* the steps of the worker and the dialog's save in any order; the tool and
\* the service work, the day does not change
KeyNext ==
    \/ RunStart
    \/ Boundary
    \/ GpsRead("ok")
    \/ \E rec \in HttpRecords : ResolveKey(rec)
    \/ SetEntry
    \/ FlushOpen
    \/ FlushClose("old")
    \/ Compare("ok")
    \/ Write("ok")
    \/ Summary
    \/ \E p \in InitPrecisions : DialogSetPrecision(p)

KeySpec == ConcInit /\ [][KeyNext]_vars

---------------------------------------------------------------------------
(* The main window: start, stop and the handlers of the terminal signals *)

\* the file lists the directory of the input field may hold
MainDirectories == { << >>, <<"fA", "fN">> }

\* MainWindow.__init__: an empty cache file, the default precision, no
\* worker; the skip checkbox is not ticked
MainInit ==
    /\ disk = [ok |-> FALSE, data |-> EmptyStore]
    /\ cache_data = LoadCache(disk)
    /\ precision = 5
    /\ cache_max_age_days = 1
    /\ now = 1
    /\ nSets = 0
    /\ last = [op |-> "init"]
    /\ directory \in MainDirectories
    /\ skip_existing = FALSE
    /\ should_stop = FALSE
    /\ stats = << >>
    /\ pc = "none"
    /\ image_files = << >>
    /\ idx = 0
    /\ meta = InitMeta
    /\ gps_data = None
    /\ location = None
    /\ events = << >>
    /\ calls = << >>
    /\ dumping = EmptyStore
    /\ cache_key = NoKey
    /\ window = IdleWindow

\* the run's terminal signal is among the events
Terminal(ev) == \E j \in DOMAIN events : events[j].ev = ev

\* start_processing leaving the start button enabled
StartProcessingKeepingStart(valid) ==
    /\ window.start_btn
    /\ IF ~valid
       THEN UNCHANGED <<window, pc, should_stop, stats, image_files, idx,
                        gps_data, location, events, calls>>
       ELSE /\ window' = [start_btn |-> TRUE, stop_btn |-> TRUE,
                          worker |-> TRUE]
            /\ pc' = "start"
            /\ should_stop' = FALSE
            /\ stats' = ZeroStats
            /\ image_files' = << >>
            /\ idx' = 0
            /\ gps_data' = None
            /\ location' = None
            /\ events' = << >>
            /\ calls' = <<StartMark>>
    /\ UNCHANGED <<directory, skip_existing, meta, dumping, cache_key>>
    /\ UNCHANGED cvars

\* MainWindow.start_processing, the start button clicked: an invalid
\* directory is answered with a warning; else the buttons are switched, the
\* log view is cleared, and a new worker is created and started (calls
\* holds the steps of the new worker from here on)
StartProcessing(valid) ==
    /\ window.start_btn
    /\ IF ~valid
       THEN UNCHANGED <<window, pc, should_stop, stats, image_files, idx,
                        gps_data, location, events, calls>>
       ELSE /\ window' = BusyWindow
            /\ pc' = "start"
            /\ should_stop' = FALSE
            /\ stats' = ZeroStats
            /\ image_files' = << >>
            /\ idx' = 0
            /\ gps_data' = None
            /\ location' = None
            /\ events' = << >>
            /\ calls' = <<StartMark>>
    /\ UNCHANGED <<directory, skip_existing, meta, dumping, cache_key>>
    /\ UNCHANGED cvars

\* stop_processing ending the worker thread where it is
StopProcessingPreempting ==
    /\ window.stop_btn
    /\ IF window.worker
       THEN /\ should_stop' = TRUE
            /\ calls' = Append(calls, Call("stop", pc))
            /\ window' = [window EXCEPT !.stop_btn = FALSE]
            /\ pc' = IF pc = "done" THEN pc ELSE "summary"
       ELSE UNCHANGED <<should_stop, calls, window, pc>>
    /\ UNCHANGED <<directory, skip_existing, stats, image_files, idx,
                   meta, gps_data, location, events, dumping, cache_key>>
    /\ UNCHANGED cvars

\* MainWindow.stop_processing, the stop button clicked: GeocodingWorker.stop
\* sets the flag, the stop button is disabled; the call is noted with the
\* file begun last and the position of the worker
StopProcessing ==
    /\ window.stop_btn
    /\ IF window.worker
       THEN /\ should_stop' = TRUE
            /\ calls' = Append(calls, Call("stop", pc))
            /\ window' = [window EXCEPT !.stop_btn = FALSE]
       ELSE UNCHANGED <<should_stop, calls, window>>
    /\ UNCHANGED <<directory, skip_existing, stats, pc, image_files, idx,
                   meta, gps_data, location, events, dumping, cache_key>>
    /\ UNCHANGED cvars

\* MainWindow.processing_finished, the slot of the finished signal
ProcessingFinished ==
    /\ pc = "done"
    /\ ~window.start_btn
    /\ Terminal("finished")
    /\ window' = [window EXCEPT !.start_btn = TRUE, !.stop_btn = FALSE]
    /\ UNCHANGED <<directory, skip_existing, should_stop, stats, pc,
                   image_files, idx, meta, gps_data, location, events, calls,
                   dumping, cache_key>>
    /\ UNCHANGED cvars

\* MainWindow.show_error, the slot of the error signal: the message box,
\* then processing_finished
ShowError ==
    /\ pc = "done"
    /\ ~window.start_btn
    /\ Terminal("error")
    /\ window' = [window EXCEPT !.start_btn = TRUE, !.stop_btn = FALSE]
    /\ UNCHANGED <<directory, skip_existing, should_stop, stats, pc,
                   image_files, idx, meta, gps_data, location, events, calls,
                   dumping, cache_key>>
    /\ UNCHANGED cvars

\* the steps of the worker thread: every call of the tool and of the
\* service returns or raises
MainWorkerStep ==
    \/ RunStart
    \/ Boundary
    \/ \E o \in {"ok", "raised"} : GpsRead(o)
    \/ \E h \in {"ok", "failed"}, rec \in HttpRecords : Resolve(h, rec, "ok")
    \/ Compare("ok")
    \/ \E o \in {"ok", "timeout"} : Write(o)
    \/ Summary

\* the slots the event loop runs for the terminal signal
MainSlot == ProcessingFinished \/ ShowError

\* the steps of the worker thread, the clicks on the buttons, the slots and
\* the settings dialog saved while a run is under way
MainNext ==
    \/ MainWorkerStep
    \/ \E valid \in BOOLEAN : StartProcessing(valid)
    \/ StopProcessing
    \/ MainSlot
    \/ DialogSetMaxAgeDays(2)

MainSpec == MainInit /\ [][MainNext]_vars

\* the worker thread is scheduled as long as it has a step to take, and the
\* event loop runs the slot of a signal that was emitted
MainLive == MainSpec /\ WF_vars(MainWorkerStep) /\ WF_vars(MainSlot)

---------------------------------------------------------------------------
(* Lookups while the lifetime setting is changed *)

\* the settings dialog saved with a lifetime other than the active one
ChangeMaxAgeDays(d) == d # cache_max_age_days /\ SetMaxAgeDays(d)

\* lookups, changes of the lifetime, purges with the active lifetime, and
\* the passing of days
AgeNext ==
    \/ \E d \in MaxAgeInputs : ChangeMaxAgeDays(d)
    \/ \E c \in CoordInputs : Get(c[1], c[2])
    \/ ClearOldEntries(TRUE, cache_max_age_days, "ok")
    \/ Tick

AgeSpec == Init /\ [][AgeNext]_vars

---------------------------------------------------------------------------
(* Construction from the stored settings *)

\* values the settings store may hold under cache_precision: the default,
\* and one below and one above the levels
StoredPrecisions == {2, 5, 8}

\* values the settings store may hold under cache_max_age_days
StoredMaxAges == {0, 1}

\* MainWindow.__init__: the cache is built with the two stored values as
\* they are read
ConstructInit ==
    /\ disk \in InitDisks
    /\ cache_data = LoadCache(disk)
    /\ precision \in StoredPrecisions
    /\ cache_max_age_days \in StoredMaxAges
    /\ now = 1
    /\ nSets = 0
    /\ last = [op |-> "init"]
    /\ NoWorker

ConstructNext ==
    \/ \E c \in CoordInputs : Get(c[1], c[2])
    \/ \E c \in SetInputs, rec \in NewRecords : Set(c[1], c[2], rec, "ok")
    \/ GetStats
    \/ \E p \in PrecisionInputs : SetPrecision(p)
    \/ \E d \in MaxAgeInputs : SetMaxAgeDays(d)

ConstructSpec == ConstructInit /\ [][ConstructNext]_vars

---------------------------------------------------------------------------
(* Properties *)

\* the entry under key k has a timestamp that parses
HasAge(k) == cache_data[k].timestamp.kind = "iso"

\* the age in days of the entry under key k
AgeOf(k) == now - cache_data[k].timestamp.t

\* the entry under key k is older than max-age
Aged(k) == HasAge(k) /\ AgeOf(k) > cache_max_age_days

\* two coordinate pairs round to the same values at precision p
SameRounding(c, d, p) ==
    /\ FloatEq(Round(c[1], p), Round(d[1], p))
    /\ FloatEq(Round(c[2], p), Round(d[2], p))

\* C1: at the active precision, two coordinate pairs that round to the same
\* latitude and longitude get the same key, and get returns the same result
\* for both.
C1_KeyCollision ==
    \A c \in CoordInputs, d \in CoordInputs :
        SameRounding(c, d, precision) =>
            /\ GenerateCacheKey(c[1], c[2]) = GenerateCacheKey(d[1], d[2])
            /\ GetValue(c[1], c[2]) = GetValue(d[1], d[2])

\* C2: a get that directly follows set(lat, lon, record) with the same
\* coordinates returns exactly that record.
C2_RoundTrip ==
    [][(/\ last.op = "set"
        /\ last'.op = "get"
        /\ last'.lat = last.lat
        /\ last'.lon = last.lon) => last'.ret = last.rec]_vars

C2_Witness ==
    last.op = "get" /\ last.after_set = "ok" /\ last.ret = "r1"

\* the keys get_stats is to count as expired: an entry older than max-age or
\* one whose timestamp does not parse
AgedOrBad == {k \in DOMAIN cache_data :
                 Aged(k) \/ cache_data[k].timestamp.kind = "bad"}

\* C3: an entry older than max-age is not returned by get and is counted as
\* expired by get_stats; get and get_stats leave the store as it is, in
\* memory and on disk; the entry's key leaves the store only by
\* clear_old_entries or by the full clear.
C3_ExpiredKept ==
    [][\A k \in DOMAIN cache_data : Aged(k) =>
          /\ (last'.op = "get" /\ GenerateCacheKey(last'.lat, last'.lon) = k)
                => last'.ret = None
          /\ last'.op = "get_stats"
                => last'.ret.expired = Cardinality(AgedOrBad)
          /\ last'.op \in {"get", "get_stats"}
                => cache_data' = cache_data /\ disk' = disk
          /\ k \notin DOMAIN cache_data'
                => last'.op \in {"clear_old_entries", "clear_all_cache"}]_vars

C3_Witness ==
    /\ last.op = "get"
    /\ last.ret = None
    /\ LET k == GenerateCacheKey(last.lat, last.lon)
       IN  k \in DOMAIN cache_data /\ Aged(k) /\ disk.ok
           /\ k \in DOMAIN disk.data

\* the entry under key k counts as expired for a purge with threshold th:
\* its age exceeds th, or its timestamp is missing or does not parse
PurgeExpired(k, th) ==
    \/ cache_data[k].timestamp.kind \in {"missing", "bad"}
    \/ HasAge(k) /\ AgeOf(k) > th

\* C4: clear_old_entries(threshold) removes exactly the entries that are
\* expired at the threshold, leaves every other entry as it was, returns the
\* number removed, and the total of get_stats drops by the returned count.
C4_PurgeExact ==
    [][last'.op = "clear_old_entries" =>
          LET gone == {k \in DOMAIN cache_data :
                          PurgeExpired(k, last'.threshold)}
          IN  /\ cache_data' = Without(cache_data, gone)
              /\ last'.ret = Cardinality(gone)
              /\ StatsValue'.total = StatsValue.total - last'.ret]_vars

\* C5: clear_old_entries deletes every entry whose timestamp is missing or
\* does not parse, and counts it in the number it returns.
C5_PurgeUnparsable ==
    [][last'.op = "clear_old_entries" =>
          LET odd == {k \in DOMAIN cache_data :
                         cache_data[k].timestamp.kind \in {"missing", "bad"}}
          IN  /\ odd \cap DOMAIN cache_data' = {}
              /\ last'.ret >= Cardinality(odd)]_vars

\* C6 as stated: after the full clear the total is 0, every get returns
\* absent and the persisted store is the empty mapping.
C6_ClearAll_Original ==
    last.op = "clear_all_cache" =>
        /\ StatsValue.total = 0
        /\ \A c \in CoordInputs : GetValue(c[1], c[2]) = None
        /\ disk = [ok |-> TRUE, data |-> EmptyStore]

\* C6 (amended): after the full clear the total is 0 and every get returns
\* absent; the persisted store is the empty mapping when the flush succeeded.
C6_ClearAll ==
    last.op = "clear_all_cache" =>
        /\ StatsValue.total = 0
        /\ \A c \in CoordInputs : GetValue(c[1], c[2]) = None
        /\ ~last.raised
        /\ last.flush = "ok" => disk = [ok |-> TRUE, data |-> EmptyStore]

C6_Witness ==
    /\ last.op = "clear_all_cache"
    /\ last.nonempty
    /\ last.flush = "ok"
    /\ disk = [ok |-> TRUE, data |-> EmptyStore]

\* C7: get_stats counts an entry as valid exactly when get on its key
\* returns its record and as expired otherwise, so valid + expired = total.
C7_StatsPartition ==
    last.op = "get_stats" =>
        /\ last.ret.valid =
              Cardinality({k \in DOMAIN cache_data : GetByKey(k) # None})
        /\ last.ret.expired =
              Cardinality({k \in DOMAIN cache_data : GetByKey(k) = None})
        /\ last.ret.valid + last.ret.expired = last.ret.total

\* C8: set_precision with a value outside 3..7 and set_max_age_days with a
\* value <= 0 raise nothing and change nothing; a valid value replaces the
\* one setting and nothing else.
C8_SilentReject ==
    [][/\ last'.op = "set_precision" =>
             /\ precision' = IF last'.arg \in {3, 4, 5, 6, 7}
                             THEN last'.arg ELSE precision
             /\ ~last'.raised
             /\ UNCHANGED <<cache_max_age_days, cache_data, disk>>
       /\ last'.op = "set_max_age_days" =>
             /\ cache_max_age_days' = IF last'.arg > 0
                                      THEN last'.arg ELSE cache_max_age_days
             /\ ~last'.raised
             /\ UNCHANGED <<precision, cache_data, disk>>]_vars

C8_Witness ==
    /\ last.op = "set_max_age_days"
    /\ last.arg = 0
    /\ cache_max_age_days = 2
    /\ DOMAIN cache_data # {}

\* the operation recorded in l flushed the store
Flushed(l) ==
    \/ l.op \in {"set", "clear_all_cache"}
    \/ l.op = "clear_old_entries" /\ l.saved

\* what get returns for the coordinates of the operation that ran last
LastGet == GetValue(last.lat, last.lon)

\* C9: a set whose flush fails raises nothing and leaves the new entry in
\* memory, where get finds it; the get that follows returns the record; no
\* operation raises, whatever flush failed before it.
C9_FailedFlush ==
    /\ (last.op = "set" /\ last.flush # "ok") =>
          /\ ~last.raised
          /\ last.key \in DOMAIN cache_data
          /\ cache_data[last.key].location_data = last.rec
          /\ LastGet = last.rec
    /\ (last.op = "get" /\ last.after_set \in {"open_failed", "write_failed"})
          => last.ret \in NewRecords /\ last.ret = LastGet
    /\ last.op \notin {"init", "tick"} => ~last.raised

C9_Witness ==
    /\ last.op = "get"
    /\ last.after_set = "write_failed"
    /\ last.ret = "r1"
    /\ ~last.raised
    /\ ~disk.ok

\* C10: after a set, a clear_old_entries that deleted something or a full
\* clear whose flush succeeded, the file holds exactly the in-memory store.
C10_WriteThrough ==
    (Flushed(last) /\ last.flush = "ok") =>
        disk = [ok |-> TRUE, data |-> cache_data]

C10_Witness ==
    /\ last.op = "clear_old_entries"
    /\ last.saved
    /\ last.flush = "ok"
    /\ nSets > 0
    /\ cache_data # EmptyStore
    /\ disk = [ok |-> TRUE, data |-> cache_data]

---------------------------------------------------------------------------
(* Properties of the worker run *)

\* the number of HTTP requests among the calls cs
HttpCount(cs) == Cardinality({j \in DOMAIN cs : cs[j].step = "http"})

\* the number of signals of one kind among the events es
EventCount(es, kind) == Cardinality({j \in DOMAIN es : es[j].ev = kind})

\* the step of process_image that was at pc has run
StepDone(at) == pc = at /\ pc' # at

\* the call made last
LastCall == calls[Len(calls)]

\* what get returns for the position of the file at hand
CachedNow == GetValue(gps_data[1], gps_data[2])

\* C12: on a cache hit reverse_geocode adds 1 to cache_hits, leaves api_calls
\* as it is, makes no HTTP request, leaves the cache as it is (memory and
\* disk) and returns the cached record.
C12_CacheHit ==
    [][(StepDone("resolve") /\ CachedNow # None) =>
          /\ stats'.cache_hits = stats.cache_hits + 1
          /\ stats'.api_calls = stats.api_calls
          /\ HttpCount(calls') = HttpCount(calls)
          /\ cache_data' = cache_data
          /\ disk' = disk
          /\ location' = CachedNow]_vars

C12_Witness ==
    /\ pc = "compare"
    /\ LastCall.step = "get"
    /\ LastCall.res = "r2"
    /\ location = "r2"
    /\ stats.cache_hits = 1
    /\ stats.api_calls = 0

\* an earlier resolve of this run stored an entry for a position in the
\* bucket of the position at hand, not longer ago than max-age
StoredInBucket ==
    \E j \in DOMAIN calls :
        /\ calls[j].step = "set"
        /\ SameRounding(GpsOf(image_files[calls[j].file]), gps_data,
                        precision)
        /\ now - calls[j].res <= cache_max_age_days

\* C13: a resolve that misses and succeeds makes exactly one HTTP request
\* and stores exactly one entry, keyed by the rounded position; a later
\* resolve of a position in the same bucket, within max-age, makes no HTTP
\* request and is a cache hit.
C13_ResolveOnce ==
    [][StepDone("resolve") =>
          LET k == GenerateCacheKey(gps_data[1], gps_data[2])
          IN  /\ (CachedNow = None /\ location' # None) =>
                    /\ HttpCount(calls') = HttpCount(calls) + 1
                    /\ DOMAIN cache_data' = DOMAIN cache_data \cup {k}
                    /\ \A x \in DOMAIN cache_data \ {k} :
                           cache_data'[x] = cache_data[x]
                    /\ cache_data'[k].coordinates =
                          <<Round(gps_data[1], precision),
                            Round(gps_data[2], precision)>>
                    /\ cache_data'[k].location_data = location'
              /\ StoredInBucket =>
                    /\ HttpCount(calls') = HttpCount(calls)
                    /\ stats'.cache_hits = stats.cache_hits + 1]_vars

\* C14: when the request fails or the answer has no features,
\* reverse_geocode returns absent, raises nothing, leaves the cache as it is
\* (memory and disk) and has added exactly 1 to api_calls.
C14_FailureNotCached ==
    [][(/\ StepDone("resolve")
        /\ LastCall'.step = "http"
        /\ LastCall'.res \in {"failed", "no_features"}) =>
          /\ location' = None
          /\ EventCount(events', "error") = 0
          /\ pc' = "boundary"
          /\ cache_data' = cache_data
          /\ disk' = disk
          /\ stats' = [stats EXCEPT !.api_calls = @ + 1]]_vars

C14_Witness ==
    /\ pc = "boundary"
    /\ Len(calls) > 0
    /\ LastCall.step = "http"
    /\ LastCall.res = "failed"
    /\ stats.api_calls = 2
    /\ stats.total_processed = 1
    /\ location = None

\* the probes that printed a text
TaggedProbes ==
    {j \in DOMAIN calls : calls[j].step = "probe" /\ calls[j].res # ""}

\* C15: a file whose existing-location probe prints a text is counted in
\* skipped_already_tagged, and the probe is the only call ever made for it:
\* no GPS read, no cache lookup, no HTTP request, no compare, no write.
C15_SkipTagged ==
    /\ \A j \in TaggedProbes :
          \A k \in DOMAIN calls : calls[k].file = calls[j].file => k = j
    /\ stats.skipped_already_tagged = Cardinality(TaggedProbes)

C15_Witness ==
    /\ skip_existing
    /\ pc = "done"
    /\ stats.skipped_already_tagged = 2
    /\ Len(calls) = 2

\* the GPS reads that returned no position
EmptyGpsReads ==
    {j \in DOMAIN calls : calls[j].step = "gps" /\ calls[j].res = None}

\* C16: a file whose GPS read returns no position adds exactly 1 to
\* skipped_no_gps and changes no other counter, and neither a resolve
\* (lookup, request) nor a compare nor a write is ever made for it.
C16_NoGps ==
    [][/\ (StepDone("gps") /\ Len(calls') \in EmptyGpsReads') =>
             /\ stats' = [stats EXCEPT !.skipped_no_gps = @ + 1]
             /\ pc' = "boundary"
       /\ \A j \in EmptyGpsReads' :
             \A k \in DOMAIN calls' :
                 calls'[k].file = calls'[j].file
                     => calls'[k].step \in {"probe", "gps"}]_vars

C16_Witness ==
    /\ pc = "done"
    /\ stats.skipped_no_gps = 1
    /\ stats.total_processed = 1
    /\ EmptyGpsReads = {Len(calls)}
    /\ EventCount(events, "finished") = 1

\* C17: when the tool read the file's tags and the candidate's city, state
\* and country equal the file's, the file ends unchanged: 1 is added to
\* metadata_unchanged, metadata_written stays, and no write follows.
C17_IdenticalUnchanged ==
    [][(/\ StepDone("compare")
        /\ LastCall'.res = "ok"
        /\ Fields(location) = meta[CurrentFile]) =>
          /\ stats'.metadata_unchanged = stats.metadata_unchanged + 1
          /\ stats'.metadata_written = stats.metadata_written
          /\ pc' = "boundary"]_vars

\* the 'cancelled' line is among the events
Cancelled ==
    \E j \in DOMAIN events :
        events[j].ev = "log" /\ events[j].text = "cancelled"

\* the indices of the progress signals emitted
ProgressIndices ==
    {events[j].current : j \in {x \in DOMAIN events : events[x].ev = "progress"}}

\* C18: when the flag is set at the loop head with k of n files done
\* (k < n), the loop ends there with the 'cancelled' line: exactly k files
\* were processed, no progress signal beyond k was emitted, and the run ends
\* with exactly one finished signal and no error signal.
C18_Cancel ==
    [][/\ (StepDone("boundary") /\ should_stop /\ idx < Len(image_files)) =>
             /\ events' = Append(events, Log("cancelled"))
             /\ pc' = "summary"
             /\ UNCHANGED <<idx, calls, stats, meta, cache_data, disk>>
       /\ Cancelled' =>
             /\ pc' \in {"summary", "done"}
             /\ idx' < Len(image_files')
             /\ ProgressIndices' = 1 .. idx'
             /\ \A j \in DOMAIN calls' : calls'[j].file <= idx'
             /\ EventCount(events', "error") = 0
             /\ EventCount(events', "finished") =
                   IF pc' = "done" THEN 1 ELSE 0]_vars

C18_Witness ==
    /\ pc = "done"
    /\ Cancelled
    /\ idx = 1
    /\ Len(image_files) = 2
    /\ stats.metadata_written = 1
    /\ EventCount(events, "finished") = 1

\* the positions of the finished and error signals among the events
Terminals ==
    {j \in DOMAIN events : events[j].ev \in {"finished", "error"}}

\* C19: a run emits exactly one terminal signal, finished or error, and
\* nothing after it: no signal, no call, no change of the counters.
C19_OneTerminal ==
    [][/\ Cardinality(Terminals') <= 1
       /\ pc' = "done" <=> Cardinality(Terminals') = 1
       /\ Terminals' \subseteq {Len(events')}
       /\ Terminals # {} =>
             UNCHANGED <<events, calls, stats, idx, meta, cache_data, disk>>
      ]_vars

C19_Witness ==
    /\ pc = "done"
    /\ events[Len(events)].ev = "error"
    /\ should_stop
    /\ idx = 2
    /\ Cardinality(Terminals) = 1

\* C20: a run that ends without an error signal has emitted exactly one
\* statistics snapshot and exactly one finished signal, the snapshot first.
C20_FinalSnapshot ==
    (pc = "done" /\ EventCount(events, "error") = 0) =>
        /\ EventCount(events, "cache_stats") = 1
        /\ EventCount(events, "finished") = 1
        /\ \A i \in DOMAIN events, j \in DOMAIN events :
              (events[i].ev = "cache_stats" /\ events[j].ev = "finished")
                  => i < j

\* an exception escaped a step of process_image and reached run()
Escaped ==
    \E j \in DOMAIN calls : calls[j].step = "stat" /\ calls[j].res = "raised"

\* the calls that failed: the tool timed out, was not found or exited
\* non-zero, the request failed or its answer could not be read
FailedCalls ==
    {j \in DOMAIN calls :
        \/ /\ calls[j].step = "probe"
           /\ calls[j].res = ""
           /\ InitMeta[directory[calls[j].file]].city # ""
        \/ /\ calls[j].step = "gps"
           /\ calls[j].res = None
           /\ GpsOf(directory[calls[j].file]) # None
        \/ calls[j].step = "http" /\ calls[j].res = "failed"
        \/ calls[j].step = "compare" /\ calls[j].res \in {"no_output", "raised"}
        \/ calls[j].step = "write" /\ calls[j].res \in {"nonzero", "timeout"}}

\* the lines among the events that tell how file i ended
OutcomeLines(i) ==
    {j \in DOMAIN events :
        /\ events[j].ev = "log"
        /\ events[j].file = i
        /\ events[j].text \in {"already_tagged", "no_gps", "no_location",
                               "unchanged", "written", "write_failed"}}

C22_NoFiles ==
    (pc = "done" /\ image_files = << >>) =>
        /\ events = <<[ev |-> "log", text |-> "search", file |-> 0],
                      [ev |-> "log", text |-> "no_files", file |-> 0],
                      Finished>>
        /\ calls = << >>
        /\ stats = ZeroStats
        /\ disk \in InitDisks
        /\ cache_data = LoadCache(disk)
        /\ meta = InitMeta

C22_Witness ==
    /\ pc = "done"
    /\ directory = << >>
    /\ image_files = << >>
    /\ events[Len(events)] = Finished
    /\ DOMAIN cache_data # {}
    /\ stats = ZeroStats

\* C23: an exception that escapes a step of process_image is caught by
\* run() once: exactly one error signal, the last signal of the run, no
\* finished signal and no snapshot, no further call and no further file.
C23_EscapeReported ==
    Escaped =>
        /\ pc = "done"
        /\ EventCount(events, "error") = 1
        /\ events[Len(events)] = ErrorEvent
        /\ EventCount(events, "finished") = 0
        /\ EventCount(events, "cache_stats") = 0
        /\ LastCall.step = "stat"
        /\ LastCall.res = "raised"
        /\ LastCall.file = idx

C23_Witness ==
    /\ Escaped
    /\ pc = "done"
    /\ idx = 1
    /\ Len(image_files) = 2
    /\ EventCount(events, "error") = 1
    /\ EventCount(events, "finished") = 0

\* C24: when the tool read the file's tags, compare_location_data sends the
\* file to the write exactly when its city, state or country differs from
\* the candidate's, an absent tag counting as the empty text.
C24_DiffersExact ==
    [][(StepDone("compare") /\ LastCall'.res = "ok") =>
          (pc' = "write" <=> meta[CurrentFile] # Fields(location))]_vars

\* C25: when the read of the tags fails (the tool raises, or exits non-zero
\* without output), compare_location_data sends the file to the write,
\* whatever the candidate is.
C25_FailOpen ==
    [][(StepDone("compare") /\ LastCall'.res \in {"no_output", "raised"})
          => pc' = "write"]_vars

\* the write calls whose tool exited 0, and those that failed
GoodWrites ==
    {j \in DOMAIN calls : calls[j].step = "write" /\ calls[j].res = "ok"}

FailedWrites ==
    {j \in DOMAIN calls : calls[j].step = "write" /\ calls[j].res # "ok"}

\* C26: write_location_data raises nothing and adds 1 to metadata_written
\* exactly when the tool exits 0; a file whose write failed is counted in
\* total_processed and neither in metadata_written nor in
\* metadata_unchanged.
C26_WriteCounted ==
    /\ stats.metadata_written = Cardinality(GoodWrites)
    /\ stats.total_processed =
          stats.metadata_written + stats.metadata_unchanged
          + Cardinality(FailedWrites)
          + (IF pc \in {"compare", "write"} THEN 1 ELSE 0)
    /\ \A j \in FailedWrites :
          \A e \in DOMAIN events :
              (events[e].ev = "log" /\ events[e].file = calls[j].file)
                  => events[e].text \notin {"written", "unchanged"}
    /\ (Len(calls) > 0 /\ LastCall.step = "write" /\ LastCall.file = idx) =>
          /\ pc \in {"boundary", "summary", "done"}
          /\ EventCount(events, "error") = 0

C26_Witness ==
    /\ pc = "boundary"
    /\ idx = 2
    /\ FailedWrites = {Len(calls)}
    /\ LastCall.res = "timeout"
    /\ Cardinality(GoodWrites) = 1
    /\ stats.total_processed = 2
    /\ stats.metadata_written = 1
    /\ stats.metadata_unchanged = 0

\* the positions among the calls of the calls with this step made for file i
CallsOf(i, step) ==
    {j \in DOMAIN calls : calls[j].file = i /\ calls[j].step = step}

\* the steps of process_image in the order the calls record them
StepRank(step) ==
    CASE step = "probe" -> 1
      [] step = "stat" -> 2
      [] step = "gps" -> 2
      [] step = "get" -> 3
      [] step = "http" -> 4
      [] step = "set" -> 5
      [] step = "compare" -> 6
      [] step = "write" -> 7

\* call a was made for an earlier file than call b, or for the same file
\* in an earlier step
ComesBefore(a, b) ==
    \/ a.file < b.file
    \/ a.file = b.file /\ StepRank(a.step) < StepRank(b.step)

\* C29: every call made comes after the call before it, that is, the calls
\* made for a file come in the order probe (only with
\* skip-existing), GPS read, resolve (lookup, request, store), compare,
\* write, each at most once, and the files come in order; with
\* skip-existing the GPS read follows a probe that printed nothing, a
\* resolve follows a GPS read that returned a position, a compare follows a
\* resolve that returned a record, a write follows a compare that returned
\* true.
C29_StepOrder ==
    [][/\ \A j \in DOMAIN calls' \ DOMAIN calls :
             /\ j > 1 => ComesBefore(calls'[j - 1], calls'[j])
             /\ calls'[j].step = "probe" => skip_existing
       /\ (StepDone("gps") /\ skip_existing) =>
             /\ LastCall.step = "probe"
             /\ LastCall.file = idx
             /\ LastCall.res = ""
       /\ StepDone("resolve") =>
             /\ LastCall.step = "gps"
             /\ LastCall.file = idx
             /\ LastCall.res # None
             /\ LastCall.res = gps_data
       /\ StepDone("compare") =>
             /\ location # None
             /\ LastCall.file = idx
             /\ \/ LastCall.step = "get" /\ LastCall.res = location
                \/ /\ LastCall.step = "set"
                   /\ calls[Len(calls) - 1].step = "http"
                   /\ calls[Len(calls) - 1].res = "ok"
       /\ StepDone("write") =>
             /\ LastCall.step = "compare"
             /\ LastCall.file = idx
             /\ CompareLocationData(CurrentFile, location, LastCall.res)
      ]_vars

C29_Witness ==
    /\ skip_existing
    /\ pc = "boundary"
    /\ idx = 1
    /\ Len(calls) = 7
    /\ \A s \in {"probe", "gps", "get", "http", "set", "compare", "write"} :
          Cardinality(CallsOf(1, s)) = 1

\* the positions of the progress signals among the events
ProgressAt == {j \in DOMAIN events : events[j].ev = "progress"}

\* the position of the progress signal with index i
ProgressOf(i) == CHOOSE j \in ProgressAt : events[j].current = i

\* C30: there is exactly one progress signal for each file begun, with the
\* indices 1, 2, ..., idx and the number of files found as total in each;
\* the signal of a file comes before each of the file's lines and after
\* each line of the file before it.
C30_ProgressOrder ==
    /\ Cardinality(ProgressAt) = idx
    /\ ProgressIndices = 1 .. idx
    /\ \A j \in ProgressAt : events[j].total = Len(image_files)
    /\ \A e \in DOMAIN events :
          events[e].ev = "log" =>
              /\ events[e].file >= 1 => ProgressOf(events[e].file) < e
              /\ events[e].file < idx => e < ProgressOf(events[e].file + 1)

C30_Witness ==
    /\ pc = "done"
    /\ idx = 2
    /\ Cardinality(ProgressAt) = 2
    /\ \A j \in ProgressAt : events[j].total = 2
    /\ Cardinality(OutcomeLines(1)) = 1
    /\ Cardinality(OutcomeLines(2)) = 1
    /\ EventCount(events, "finished") = 1

\* the positions among the calls where a further run was started
StartMarks == {j \in DOMAIN calls : calls[j].step = "start"}

\* C27: when no call of a run failed, the runs started after it over the
\* same files, with the same settings and on the same day, make no HTTP
\* request and no write.
C27_RerunNoop ==
    \A s \in StartMarks :
        (\A j \in FailedCalls : j > s) =>
            \A k \in DOMAIN calls :
                k > s => calls[k].step \notin {"http", "write"}

\* C28: whatever the order of the steps of the worker's set and of the
\* dialog's operations, nobody writes the file while the worker's flush is
\* in progress, no set fails because the mapping changed under it, and
\* whenever the worker is not inside a set the file holds the in-memory
\* store.
C28_Serialized ==
    [][/\ (pc = "flush_close" /\ pc' = "flush_close") => disk' = disk
       /\ \A j \in DOMAIN calls' : calls'[j].step # "set_failed"
       /\ pc' \notin {"flush_open", "flush_close"}
             => LoadCache(disk') = cache_data']_vars

\* the counters of the run
Counters == DOMAIN ZeroStats

\* C33: at every file boundary of a run into which no exception escaped,
\* the number of files begun is skipped_already_tagged + skipped_no_gps +
\* cache_hits + api_calls, and metadata_written + metadata_unchanged <=
\* total_processed <= cache_hits + api_calls; no counter ever decreases,
\* and a counter changes only in a step of process_image.
C33_Accounting ==
    [][/\ (pc' \in {"boundary", "summary", "done"} /\ ~Escaped') =>
             /\ idx' = stats'.skipped_already_tagged + stats'.skipped_no_gps
                       + stats'.cache_hits + stats'.api_calls
             /\ stats'.metadata_written + stats'.metadata_unchanged
                   <= stats'.total_processed
             /\ stats'.total_processed
                   <= stats'.cache_hits + stats'.api_calls
       /\ \A c \in Counters : stats'[c] >= stats[c]
       /\ stats' # stats =>
             /\ pc \in {"probe", "gps", "resolve", "compare", "write"}
             /\ pc' # pc
             /\ idx' = idx
      ]_vars

C33_Witness ==
    /\ pc = "boundary"
    /\ idx = 2
    /\ stats.skipped_no_gps = 1
    /\ stats.api_calls = 1
    /\ stats.total_processed = 1
    /\ stats.metadata_written = 0
    /\ stats.metadata_unchanged = 0
    /\ Cardinality(FailedWrites) = 1

\* what a lookup of key k is to return under a lifetime of d days, for an
\* entry whose timestamp parses
LookupUnder(k, d) ==
    IF AgeOf(k) <= d THEN cache_data[k].location_data ELSE None

\* C36: get applies the lifetime that is active when it is called, and
\* set_max_age_days changes no entry: after the lifetime was changed, an
\* entry not older than the new value is returned with its record, an
\* older one is not returned and stays in the store.
C36_ExpiryAtLookup ==
    [][/\ last'.op = "set_max_age_days" =>
             /\ cache_data' = cache_data
             /\ disk' = disk
             /\ \A k \in DOMAIN cache_data :
                   HasAge(k) =>
                      GetByKey(k)' = LookupUnder(k, cache_max_age_days')
       /\ last'.op = "get" =>
             LET k == GenerateCacheKey(last'.lat, last'.lon)
             IN  (k \in DOMAIN cache_data /\ HasAge(k)) =>
                     last'.ret = LookupUnder(k, cache_max_age_days)]_vars

C36_Witness ==
    /\ last.op = "set_max_age_days"
    /\ last.arg = 2
    /\ cache_max_age_days = 2
    /\ \E k \in DOMAIN cache_data :
          /\ HasAge(k)
          /\ AgeOf(k) = 2
          /\ GetByKey(k) = "r2"

\* C37: get returns an entry only when the precision recorded in the entry
\* is the active precision, so that an entry stored before the precision was
\* changed is never returned.
C37_PrecisionMatch ==
    (last.op = "get" /\ last.ret # None) =>
        cache_data[GenerateCacheKey(last.lat, last.lon)].precision = precision

\* C34: in every state of the cache, the state after construction from the
\* stored settings included, the precision is one of the levels 3..7 and
\* max-age is positive, so that the level get_stats and get_precision_info
\* describe is the precision the keys are derived with.
C34_ValidSettings ==
    /\ precision \in PRECISION_LEVELS
    /\ cache_max_age_days > 0
    /\ PrecisionInfo = precision
    /\ last.op = "get_stats" => last.ret.precision_name = last.ret.precision

\* the keys of the entries set created (the entries found at startup hold
\* another record)
SetKeys == {k \in DOMAIN cache_data : cache_data[k].location_data \in HttpRecords}

\* C35: every entry set creates is stored under the key of its own stored
\* coordinates, and these are the coordinates of a file rounded at the
\* precision recorded in the entry, also when the dialog changes the
\* precision while the worker is in set.
C35_KeyOfEntry ==
    \A k \in SetKeys :
        LET e == cache_data[k]
        IN  /\ k = <<FloatStr(e.coordinates[1]), FloatStr(e.coordinates[2])>>
            /\ \E j \in 1..idx :
                  LET c == GpsOf(image_files[j])
                  IN  e.coordinates = <<Round(c[1], e.precision),
                                        Round(c[2], e.precision)>>

\* the position of the start of the current run among the calls
LastStart ==
    CHOOSE j \in DOMAIN calls :
        /\ calls[j].step = "start"
        /\ \A k \in DOMAIN calls : calls[k].step = "start" => k <= j

\* the calls of stop made during the current run
StopCalls ==
    {j \in DOMAIN calls : calls[j].step = "stop" /\ j > LastStart}

\* the positions of the worker inside process_image
InFile == {"probe", "gps", "resolve", "compare", "write"}

\* C31: stop is not preemptive.  When stop was called while file i was being
\* processed, no file after i is begun; once the worker has left file i
\* without an exception escaping, file i has exactly one outcome line and
\* the counters account for all i files; and if i was the last file the run
\* ends as a normal completion (no 'cancelled' line, finished emitted),
\* else as a cancelled one.
C31_StopNotPreemptive ==
    \A j \in StopCalls :
        calls[j].res \in InFile =>
            LET i == calls[j].file
            IN  /\ idx = i
                /\ (pc \in {"boundary", "summary", "done"}
                       /\ ~Terminal("error")) =>
                      /\ Cardinality(OutcomeLines(i)) = 1
                      /\ i = stats.skipped_already_tagged
                             + stats.skipped_no_gps
                             + stats.cache_hits + stats.api_calls
                /\ (pc = "done" /\ ~Terminal("error")) =>
                      /\ Terminal("finished")
                      /\ Cancelled <=> i < Len(image_files)

C31_Witness ==
    /\ pc = "done"
    /\ Terminal("finished")
    /\ ~Cancelled
    /\ stats.skipped_no_gps = 1
    /\ \E j \in StopCalls :
          /\ calls[j].file = 2
          /\ calls[j].res = "gps"
          /\ Len(image_files) = 2

\* a run is under way
Active == pc \notin {"none", "done"}

\* the run is over and its terminal signal was emitted: finished, or error
\* when an exception escaped into run()
Ended == pc = "done" /\ (Terminal("finished") \/ Terminal("error"))

\* C32: while every call of the tool and of the service returns, every run
\* over a finite list of files emits its terminal signal in the end; once
\* stop was called no further file is begun, so the run ends after at most
\* the file under way.
C32_RunTerminates ==
    /\ Active ~> Ended
    /\ (Active /\ should_stop) ~> Ended
    /\ [][(should_stop /\ should_stop') => idx' = idx]_vars
    /\ [](pc = "done" => Ended)

C32_Witness ==
    /\ Ended
    /\ Cancelled
    /\ idx = 1
    /\ Len(image_files) = 2
    /\ \E j \in StopCalls : calls[j].file = 1 /\ calls[j].res = "write"

\* C38: at most one worker runs at a time.  The start button is disabled
\* from start_processing until the slot of finished or error has run, so a
\* run is started only while none is under way; every run that was started
\* gets the start button enabled again; and the settings dialog can be
\* saved while a run is under way.
C38_OneRun ==
    /\ [](window.start_btn => ~Active)
    /\ [][(pc' = "start" /\ pc # "start") =>
             /\ ~Active
             /\ window.start_btn
             /\ ~window'.start_btn]_vars
    /\ (~window.start_btn) ~> window.start_btn
    /\ [](Active => ENABLED DialogSetMaxAgeDays(2))

C38_Witness ==
    /\ pc = "gps"
    /\ idx = 1
    /\ ~window.start_btn
    /\ window.stop_btn
    /\ meta["fA"] = Fields("r1")
    /\ last.op = "set_max_age_days"

=============================================================================
